---- MODULE Spec2Model ----
(***************************************************************************)
(* Game-state aggregation of dominions-5-status:                           *)
(*   src/commands/servers/details.rs      (get_details_for_alias & co.)    *)
(*   src/commands/servers/add_server/tests.rs (contract of add_server)     *)
(* Strings that are compared for order (nation names) are sequences of     *)
(* character codes, so that String::cmp is lexicographic comparison.       *)
(***************************************************************************)
EXTENDS Integers, Sequences, FiniteSets, TLC

VARIABLES world, store, call, result, potential_players

vars == <<world, store, call, result, potential_players>>

----------------------------------------------------------------------------
(* Bounds of the model *)

MaxNations == 2
MaxRegs == 2
MaxCapacity == 1

(* Program constants *)

MsPerMinute == 60000
MinutesPerHour == 60

----------------------------------------------------------------------------
(* Machine integers.  An i32 is an integer in its range; a u32 is its     *)
(* two 16-bit halves, so that every 32-bit pattern is a value.            *)

Half == 256 * 256

U32(hi, lo) == [hi |-> hi, lo |-> lo]

\* `x as u32` for an i32 x: the same 32 bits (two's complement)
ToU32(x) == U32(((x \div Half) + Half) % Half, x % Half)

\* Ord on u32
U32LessEq(a, b) == a.hi < b.hi \/ (a.hi = b.hi /\ a.lo <= b.lo)

\* std::cmp::max on u32
MaxU32(a, b) == IF U32LessEq(b, a) THEN a ELSE b

\* Variant: a division that rounds toward minus infinity
DivI32_Floor(a, b) == a \div b

\* i32 `/` by a positive divisor: truncates toward zero
DivI32(a, b) ==
    IF a >= 0 \/ a % b = 0 THEN a \div b ELSE (a \div b) + 1

\* i32 `-` and `*`; the operands of the model keep the result in range
SubI32(a, b) == a - b

MulI32(a, b) == a * b

----------------------------------------------------------------------------
(* Strings with an order: String::cmp *)

RECURSIVE StrLessEq(_, _)
StrLessEq(s, t) ==
    IF s = <<>> THEN TRUE
    ELSE IF t = <<>> THEN FALSE
    ELSE IF Head(s) # Head(t) THEN Head(s) < Head(t)
    ELSE StrLessEq(Tail(s), Tail(t))

StrLess(s, t) == StrLessEq(s, t) /\ s # t

----------------------------------------------------------------------------
(* Universe of inputs *)

Aliases == {"a1", "a2"}
Addresses == {"host:1"}
Players == {"p1", "p2"}
NationIds == {1, 2, 3}

None == [kind |-> "None"]

\* Nations::get_nation_desc: the static catalogue; two ids share a name,
\* as one nation does across eras.
NationName(nation_id) ==
    CASE nation_id = 1 -> <<2, 1>>
      [] nation_id = 2 -> <<1>>
      [] nation_id = 3 -> <<2, 1>>

Nation == [id : NationIds, submitted : {"NotSubmitted"}, status : {"Human"}]

RECURSIVE SeqsUpTo(_, _)
SeqsUpTo(S, n) ==
    IF n = 0 THEN {<<>>}
    ELSE LET shorter == SeqsUpTo(S, n - 1)
         IN  shorter \cup {Append(s, x) : s \in shorter, x \in S}

\* Nations the game reports: ids 1 and 2, in any order, repeated or not
NationLists == SeqsUpTo({n \in Nation : n.id \in {1, 2}}, MaxNations)

\* Rows of (player, nation id): nation 1 registered by either player, nation 3
RegLists == SeqsUpTo({<<"p1", 1>>, <<"p2", 1>>, <<"p1", 3>>}, MaxRegs)

Turns == {-2, 0}

MinI32 == -2147483647 - 1

Timers == {MinI32, -61000, 0, 59999, 7380000, 2147483647}

\* GameData as returned by ServerConnection::get_game_data
GameDatas ==
    [kind : {"GameData"}, game_name : {"g"}, nations : NationLists,
     turn : Turns, turn_timer : {7380000}]
    \cup
    [kind : {"GameData"}, game_name : {"g"}, nations : {<<>>},
     turn : {3}, turn_timer : Timers]
    \cup
    [kind : {"GameData"}, game_name : {"g"}, nations : {<<>>},
     turn : {-1}, turn_timer : {0}]

Err(e) == [kind |-> "Err", error |-> e]

Some(v) == [kind |-> "Some", value |-> v]

ConnErr == Err("Connection")

StoreErr == Err("Store")

\* SnekGameStatus.nations: nation id -> overlay nation (its name)
SnekMaps == { (1 :> [name |-> <<1>>]) }

SnekStates == {None} \cup {[kind |-> "Some", nations |-> m] : m \in SnekMaps}

\* Outcomes of ServerConnection::get_snek_data: io::Result<Option<SnekGameStatus>>
SnekOutcomes == {ConnErr} \cup SnekStates

\* Outcomes of DbConnection::players_with_nations_for_game_alias
RowsOutcomes == {StoreErr} \cup {[kind |-> "Ok", rows |-> r] : r \in RegLists}

----------------------------------------------------------------------------
(* Session records: GameServer.state *)

LobbyState(player_count) ==
    [kind |-> "Lobby", owner |-> "p1", era |-> "Early",
     description |-> Some("desc"), player_count |-> player_count]

StartedState(address, last_seen_turn, option_lobby_state) ==
    [kind |-> "StartedState", address |-> address,
     last_seen_turn |-> last_seen_turn, lobby |-> option_lobby_state]

LobbyStates == {LobbyState(c) : c \in 0..MaxCapacity}

\* DbConnection::game_for_alias on the session table
game_for_alias(db, alias) ==
    IF db[alias] = None THEN Err("NotFound")
    ELSE [kind |-> "Ok", alias |-> alias, state |-> db[alias]]

----------------------------------------------------------------------------
(* Display names *)

\* Variant: no fall-back to the catalogue
get_nation_string_NoFallback(option_snek_state, nation_id) ==
    IF option_snek_state.kind = "Some" /\ nation_id \in DOMAIN option_snek_state.nations
    THEN option_snek_state.nations[nation_id].name
    ELSE <<>>

get_nation_string(option_snek_state, nation_id) ==
    IF option_snek_state.kind = "Some" /\ nation_id \in DOMAIN option_snek_state.nations
    THEN option_snek_state.nations[nation_id].name
    ELSE NationName(nation_id)

----------------------------------------------------------------------------
(* PotentialPlayer *)

PlayerDetails(nation, option_snek_details) ==
    [nation_id |-> nation.id,
     nation_name |-> get_nation_string(option_snek_details, nation.id),
     submitted |-> nation.submitted,
     player_status |-> nation.status]

RegisteredOnly(user_id, nation_id, nation_name) ==
    [variant |-> "RegisteredOnly", user_id |-> user_id,
     nation_id |-> nation_id, nation_name |-> nation_name]

RegisteredAndGame(user_id, details) ==
    [variant |-> "RegisteredAndGame", user_id |-> user_id, details |-> details]

GameOnly(details) == [variant |-> "GameOnly", details |-> details]

nation_name(potential_player) ==
    IF potential_player.variant = "RegisteredOnly"
    THEN potential_player.nation_name
    ELSE potential_player.details.nation_name

nation_id(potential_player) ==
    IF potential_player.variant = "RegisteredOnly"
    THEN potential_player.nation_id
    ELSE potential_player.details.nation_id

option_player_id(potential_player) ==
    IF potential_player.variant = "GameOnly"
    THEN None
    ELSE Some(potential_player.user_id)

----------------------------------------------------------------------------
(* Sorting *)

\* keys is non-decreasing
IsSorted(keys) ==
    \A i \in 1..Len(keys) : \A j \in 1..Len(keys) :
        i < j => StrLessEq(keys[i], keys[j])

\* The arrangements of the elements of seq at the indices I that are in
\* order of their keys; elements with equal keys come in every relative order.
RECURSIVE SortedArrangements(_, _, _)
SortedArrangements(seq, keys, I) ==
    IF I = {} THEN {<<>>}
    ELSE LET least == {i \in I : \A j \in I : StrLessEq(keys[i], keys[j])}
         IN  UNION { { <<seq[i]>> \o rest :
                         rest \in SortedArrangements(seq, keys, I \ {i}) } :
                     i \in least }

\* Every arrangement of the elements of a set, as sequences
RECURSIVE Orders(_)
Orders(S) ==
    IF S = {} THEN {<<>>}
    ELSE UNION { { <<x>> \o rest : rest \in Orders(S \ {x}) } : x \in S }

\* The elements in order of their keys, equal keys in their original order
RECURSIVE StableSorted(_, _, _)
StableSorted(seq, keys, I) ==
    IF I = {} THEN <<>>
    ELSE LET least == {i \in I : \A j \in I : StrLessEq(keys[i], keys[j])}
             first == CHOOSE i \in least : \A j \in least : i <= j
         IN  <<seq[first]>> \o StableSorted(seq, keys, I \ {first})

\* Variant: the vector is returned as it was filled
sort_unstable_Unsorted(potential) == {potential}

\* slice::sort_unstable on Vec<PotentialPlayer>: ordered by Ord (the nation
\* name), the order of equal elements is not preserved
sort_unstable(potential) ==
    SortedArrangements(potential,
                       [i \in 1..Len(potential) |-> nation_name(potential[i])],
                       1..Len(potential))

\* slice::sort_by(|n1, n2| n1.nation_name.cmp(&n2.nation_name)): stable
sort_by_nation_name(lobby_players) ==
    StableSorted(lobby_players,
                 [i \in 1..Len(lobby_players) |-> lobby_players[i].nation_name],
                 1..Len(lobby_players))

----------------------------------------------------------------------------
(* join_players_with_nations *)

EmptyMap == [k \in {} |-> None]

\* Variant: an occupied key keeps its value (entry().or_insert)
HashMapInsert_KeepFirst(map, k, v) ==
    [x \in (DOMAIN map) \cup {k} |-> IF x \in DOMAIN map THEN map[x] ELSE v]

HashMapInsert(map, k, v) ==
    [x \in (DOMAIN map) \cup {k} |-> IF x = k THEN v ELSE map[x]]

\* Variant: the entry is read and left in the map (get instead of remove)
HashMapRemove_Keep(map, k) == map

HashMapRemove(map, k) == [x \in (DOMAIN map) \ {k} |-> map[x]]

\* for (player, nation_id) in players_nations { insert(nation_id, player) }
RECURSIVE players_by_nation_id(_, _)
players_by_nation_id(map, players_nations) ==
    IF players_nations = <<>> THEN map
    ELSE players_by_nation_id(
             HashMapInsert(map, Head(players_nations)[2], Head(players_nations)[1]),
             Tail(players_nations))

\* for nation in nations { match players_by_nation_id.remove(&nation.id) ... }
RECURSIVE JoinLive(_, _, _, _)
JoinLive(nations, map, potential, option_snek_details) ==
    IF nations = <<>> THEN [potential |-> potential, remaining |-> map]
    ELSE LET nation == Head(nations)
             details == PlayerDetails(nation, option_snek_details)
         IN  IF nation.id \in DOMAIN map
             THEN JoinLive(Tail(nations), HashMapRemove(map, nation.id),
                           Append(potential, RegisteredAndGame(map[nation.id], details)),
                           option_snek_details)
             ELSE JoinLive(Tail(nations), map,
                           Append(potential, GameOnly(details)),
                           option_snek_details)

\* for (nation_id, player) in players_by_nation_id { push(RegisteredOnly ..) },
\* visiting the keys in the order `order`
LobbyOnly(map, order) ==
    [i \in 1..Len(order) |->
        RegisteredOnly(map[order[i]], order[i], NationName(order[i]))]

\* The vectors before the sort (one per iteration order of the HashMap)
EmittedPlayers(nations, players_nations, option_snek_details) ==
    LET live == JoinLive(nations, players_by_nation_id(EmptyMap, players_nations),
                         <<>>, option_snek_details)
    IN  { live.potential \o LobbyOnly(live.remaining, order) :
            order \in Orders(DOMAIN live.remaining) }

\* The possible values of (potential_players before the sort, returned vector)
join_players_with_nations(nations, players_nations, option_snek_details) ==
    UNION { { [emitted |-> e, players |-> s] : s \in sort_unstable(e) } :
            e \in EmittedPlayers(nations, players_nations, option_snek_details) }

----------------------------------------------------------------------------
(* lobby_details *)

LobbyPlayer(row) ==
    [player_id |-> row[1], nation_id |-> row[2], nation_name |-> NationName(row[2])]

remaining_slots(player_count, len) ==
    MaxU32(ToU32(0), ToU32(SubI32(player_count, len)))

lobby_details(lobby_state, alias, players_nations) ==
    LET player_nation_details ==
            sort_by_nation_name(
                [i \in 1..Len(players_nations) |-> LobbyPlayer(players_nations[i])])
    IN  [alias |-> alias,
         owner |-> Some(lobby_state.owner),
         description |-> lobby_state.description,
         nations |-> [kind |-> "Lobby",
                      players |-> player_nation_details,
                      era |-> Some(lobby_state.era),
                      remaining_slots |->
                          remaining_slots(lobby_state.player_count,
                                          Len(player_nation_details))],
         cache_entry |-> None]

----------------------------------------------------------------------------
(* started_details_from_server *)

UploadingPlayer(potential_player) ==
    [potential_player |-> potential_player,
     uploaded |-> CASE potential_player.variant = "GameOnly" -> TRUE
                    [] potential_player.variant = "RegisteredAndGame" -> TRUE
                    [] potential_player.variant = "RegisteredOnly" -> FALSE]

\* Variant: only the turn -1 counts as between turns
IsUploading_OnlyMinusOne(game_data) == game_data.turn = -1

IsUploading(game_data) == game_data.turn < 0

total_mins_remaining(turn_timer) == DivI32(turn_timer, MsPerMinute)

hours_remaining(turn_timer) ==
    DivI32(total_mins_remaining(turn_timer), MinutesPerHour)

mins_remaining(turn_timer) ==
    SubI32(total_mins_remaining(turn_timer),
           MulI32(hours_remaining(turn_timer), MinutesPerHour))

state_details(game_data, player_details) ==
    IF IsUploading(game_data)
    THEN [kind |-> "Uploading",
          uploading_players |->
              [i \in 1..Len(player_details) |-> UploadingPlayer(player_details[i])]]
    ELSE [kind |-> "Playing",
          players |-> player_details,
          mins_remaining |-> mins_remaining(game_data.turn_timer),
          hours_remaining |-> hours_remaining(game_data.turn_timer),
          turn |-> ToU32(game_data.turn)]

\* Variant: the overlay state is left out of the cache entry
StartedCacheEntry_NoSnek(game_data, option_snek_details) ==
    [kind |-> "Some", game_data |-> game_data, option_snek_state |-> None]

StartedCacheEntry(game_data, option_snek_details) ==
    [kind |-> "Some", game_data |-> game_data,
     option_snek_state |-> option_snek_details]

started_details_from_server(started_state, option_lobby_state, alias, game_data, option_snek_details, player_details) ==
    [alias |-> alias,
     owner |-> IF option_lobby_state = None THEN None
               ELSE Some(option_lobby_state.owner),
     description |-> IF option_lobby_state = None THEN None
                     ELSE option_lobby_state.description,
     nations |-> [kind |-> "Started",
                  address |-> started_state.address,
                  game_name |-> game_data.game_name,
                  state |-> state_details(game_data, player_details)],
     cache_entry |-> StartedCacheEntry(game_data, option_snek_details)]

----------------------------------------------------------------------------
NotCalled == [kind |-> "NotCalled"]

(* add_server_helper: fetch the game, then insert a started server *)

\* Variant: the record is written before the game is fetched
add_server_helper_WriteFirst(address, alias, db, fetched) ==
    IF fetched.kind = "Err"
    THEN [result |-> fetched,
          db |-> [db EXCEPT ![alias] = StartedState(address, 0, None)],
          writes |-> 1]
    ELSE [result |-> [kind |-> "Ok", value |-> None],
          db |-> [db EXCEPT ![alias] = StartedState(address, fetched.turn, None)],
          writes |-> 1]

\* Variant: the record starts at turn 0 whatever the game reports
add_server_helper_TurnZero(address, alias, db, fetched) ==
    IF fetched.kind = "Err"
    THEN [result |-> fetched, db |-> db, writes |-> 0]
    ELSE [result |-> [kind |-> "Ok", value |-> None],
          db |-> [db EXCEPT ![alias] = StartedState(address, 0, None)],
          writes |-> 1]

add_server_helper(address, alias, db, fetched) ==
    IF fetched.kind = "Err"
    THEN [result |-> fetched, db |-> db, writes |-> 0]
    ELSE [result |-> [kind |-> "Ok", value |-> None],
          db |-> [db EXCEPT ![alias] = StartedState(address, fetched.turn, None)],
          writes |-> 1]

----------------------------------------------------------------------------
(* State *)

\* What the collaborators answer: ServerConnection::get_game_data,
\* ServerConnection::get_snek_data, DbConnection::players_with_nations_for_game_alias
Worlds ==
    [game_data : GameDatas \cup {ConnErr}, snek : SnekOutcomes, rows : RowsOutcomes]

Call(op, alias, address, writes) ==
    [op |-> op, alias |-> alias, address |-> address, writes |-> writes]

InitRecords ==
    LobbyStates \cup {StartedState(a, 0, LobbyState(MaxCapacity)) : a \in Addresses}

Init ==
    /\ world \in Worlds
    /\ \E r \in InitRecords : store = [a \in Aliases |-> IF a = "a1" THEN r ELSE None]
    /\ call = Call("none", "", "", 0)
    /\ result = NotCalled
    /\ potential_players = <<>>

\* add_server_helper::<C>(address, alias, db_conn)
AddServer(address, alias) ==
    LET out == add_server_helper(address, alias, store, world.game_data)
    IN  /\ store' = out.db
        /\ result' = out.result
        /\ call' = Call("add_server", alias, address, out.writes)
        /\ potential_players' = <<>>
        /\ UNCHANGED world

\* started_details::<C>(db_conn, started_state, option_lobby_state, &alias)
started_details(started_state, option_lobby_state, alias) ==
    IF world.game_data.kind = "Err"
    THEN \* C::get_game_data(&server_address)?
         {[result |-> world.game_data, emitted |-> <<>>]}
    ELSE IF world.snek.kind = "Err"
    THEN \* C::get_snek_data(server_address)?
         {[result |-> world.snek, emitted |-> <<>>]}
    ELSE IF world.rows.kind = "Err"
    THEN \* db_conn.players_with_nations_for_game_alias(&alias)?
         {[result |-> world.rows, emitted |-> <<>>]}
    ELSE { [result |-> [kind |-> "Ok",
                        value |-> started_details_from_server(
                                      started_state, option_lobby_state, alias,
                                      world.game_data, world.snek, joined.players)],
            emitted |-> joined.emitted] :
           joined \in join_players_with_nations(
                          world.game_data.nations, world.rows.rows, world.snek) }

\* get_details_for_alias::<C>(db_conn, alias): the possible outcomes
get_details_for_alias(alias) ==
    LET server == game_for_alias(store, alias)
    IN  IF server.kind = "Err"
        THEN {[result |-> server, emitted |-> <<>>]}
        ELSE IF server.state.kind = "Lobby"
        THEN IF world.rows.kind = "Err"
             THEN {[result |-> world.rows, emitted |-> <<>>]}
             ELSE {[result |-> [kind |-> "Ok",
                                value |-> lobby_details(server.state, alias,
                                                        world.rows.rows)],
                    emitted |-> <<>>]}
        ELSE started_details(server.state, server.state.lobby, alias)

GetDetails(alias) ==
    \E out \in get_details_for_alias(alias) :
        /\ result' = out.result
        /\ potential_players' = out.emitted
        /\ call' = Call("details", alias, "", 0)
        /\ UNCHANGED <<store, world>>

Next ==
    \/ \E address \in Addresses, alias \in Aliases : AddServer(address, alias)
    \/ \E alias \in Aliases : GetDetails(alias)

Spec == Init /\ [][Next]_vars

----------------------------------------------------------------------------
(* Vocabulary of the properties *)

AddServerCalled == call.op = "add_server"

DetailsOk == call.op = "details" /\ result.kind = "Ok"

LobbyOk == DetailsOk /\ result.value.nations.kind = "Lobby"

StartedOk == DetailsOk /\ result.value.nations.kind = "Started"

StartedStateDetails == result.value.nations.state

\* The potential players of a started result, unwrapped when uploading
PlayersOf(details) ==
    IF details.nations.state.kind = "Playing"
    THEN details.nations.state.players
    ELSE [i \in 1..Len(details.nations.state.uploading_players) |->
             details.nations.state.uploading_players[i].potential_player]

ResultPlayers == PlayersOf(result.value)

NamesOf(players) == [i \in 1..Len(players) |-> nation_name(players[i])]

LiveNations == world.game_data.nations

Rows == world.rows.rows

LiveIds == {LiveNations[i].id : i \in 1..Len(LiveNations)}

RegisteredIds == {Rows[i][2] : i \in 1..Len(Rows)}

\* The player of the last row written for the nation
LastRegistered(id) ==
    LET last == CHOOSE i \in 1..Len(Rows) :
                    /\ Rows[i][2] = id
                    /\ \A j \in 1..Len(Rows) : Rows[j][2] = id => j <= i
    IN  Rows[last][1]

Count(seq, x) == Cardinality({i \in 1..Len(seq) : seq[i] = x})

SameElements(s, t) ==
    /\ Len(s) = Len(t)
    /\ \A i \in 1..Len(s) : Count(s, s[i]) = Count(t, s[i])

HasTie(players) ==
    \E i, j \in 1..Len(players) :
        i # j /\ players[i] # players[j]
              /\ nation_name(players[i]) = nation_name(players[j])

----------------------------------------------------------------------------
(* C1: when the fetch of the game fails, add_server returns an error, makes *)
(* no store write and leaves every record of the store as it was.           *)

C1_NoWriteOnFailedFetch ==
    [][(call'.op = "add_server" /\ world.game_data.kind = "Err")
       => /\ result'.kind = "Err"
          /\ call'.writes = 0
          /\ store' = store]_vars

C1_Witness ==
    /\ AddServerCalled
    /\ world.game_data.kind = "Err"
    /\ result.kind = "Err"
    /\ store["a1"] # None
    /\ store[call.alias] = None

(* C2: when the fetch of the game succeeds, add_server makes one store write *)
(* and the record then read for the alias is Started, at the given address,  *)
(* with last_seen_turn the fetched turn and no retained lobby.               *)

C3_JoinCompleteness ==
    StartedOk
    => /\ Len(ResultPlayers) = Cardinality(LiveIds \cup RegisteredIds)
       /\ \A i, j \in 1..Len(ResultPlayers) :
             i # j => nation_id(ResultPlayers[i]) # nation_id(ResultPlayers[j])
       /\ {nation_id(ResultPlayers[i]) : i \in 1..Len(ResultPlayers)}
             = LiveIds \cup RegisteredIds

(* C3 amended: one entry is emitted per entry of the live list and one per  *)
(* distinct registered id that is not live; no id of the union is dropped;  *)
(* when the live list repeats no id, the count is the size of the union and *)
(* no id is emitted twice.                                                  *)

LiveIdsDistinct == Cardinality(LiveIds) = Len(LiveNations)

C3_JoinCount ==
    StartedOk
    => LET emittedIds == [i \in 1..Len(ResultPlayers) |-> nation_id(ResultPlayers[i])]
           liveIdSeq == [i \in 1..Len(LiveNations) |-> LiveNations[i].id]
       IN  /\ Len(ResultPlayers)
                = Len(LiveNations) + Cardinality(RegisteredIds \ LiveIds)
           /\ {emittedIds[i] : i \in 1..Len(emittedIds)} = LiveIds \cup RegisteredIds
           /\ \A id \in LiveIds : Count(emittedIds, id) = Count(liveIdSeq, id)
           /\ \A id \in RegisteredIds \ LiveIds : Count(emittedIds, id) = 1
           /\ LiveIdsDistinct
                => /\ Len(ResultPlayers) = Cardinality(LiveIds \cup RegisteredIds)
                   /\ \A id \in LiveIds \cup RegisteredIds : Count(emittedIds, id) = 1

C3_Witness ==
    /\ StartedOk
    /\ Len(Rows) = 2
    /\ Cardinality(RegisteredIds) = 1
    /\ Len(LiveNations) = 2
    /\ Cardinality(LiveIds) = 1
    /\ RegisteredIds # LiveIds
    /\ Len(ResultPlayers) = 3

(* C4 as stated: every emitted entry of an id registered but not live is    *)
(* registered-only; of an id live and registered, registered-and-present    *)
(* with the last registered player; of an id live and not registered,       *)
(* present-only.                                                            *)

C4_ClassificationPartition ==
    StartedOk
    => \A i \in 1..Len(ResultPlayers) :
          LET e == ResultPlayers[i]
              id == nation_id(e)
          IN  /\ (id \in RegisteredIds /\ id \notin LiveIds)
                    => e.variant = "RegisteredOnly"
              /\ (id \in RegisteredIds /\ id \in LiveIds)
                    => /\ e.variant = "RegisteredAndGame"
                       /\ e.user_id = LastRegistered(id)
              /\ (id \notin RegisteredIds /\ id \in LiveIds)
                    => e.variant = "GameOnly"

(* C4 amended: the entries are, in emission order, one per live entry then  *)
(* one per registered id that is not live.  The entry of a live entry is    *)
(* registered-and-present with the last registered player when its id is    *)
(* registered and occurs for the first time in the live list, and           *)
(* present-only otherwise; the entries after them are registered-only with  *)
(* the last registered player.                                              *)

C4_ClassificationByOccurrence ==
    StartedOk
    => LET n == Len(LiveNations)
       IN  /\ SameElements(ResultPlayers, potential_players)
           /\ Len(potential_players) = n + Cardinality(RegisteredIds \ LiveIds)
           /\ \A i \in 1..n :
                 LET e == potential_players[i]
                     id == LiveNations[i].id
                     first == \A j \in 1..(i - 1) : LiveNations[j].id # id
                 IN  /\ nation_id(e) = id
                     /\ IF id \in RegisteredIds /\ first
                        THEN e.variant = "RegisteredAndGame"
                               /\ e.user_id = LastRegistered(id)
                        ELSE e.variant = "GameOnly"
           /\ \A i \in (n + 1)..Len(potential_players) :
                 LET e == potential_players[i]
                 IN  /\ e.variant = "RegisteredOnly"
                     /\ e.nation_id \in RegisteredIds \ LiveIds
                     /\ e.user_id = LastRegistered(e.nation_id)
           /\ \A i \in 1..Len(ResultPlayers) :
                 LET e == ResultPlayers[i]
                     id == nation_id(e)
                 IN  /\ (id \in RegisteredIds /\ id \notin LiveIds)
                           => e.variant = "RegisteredOnly"
                     /\ (id \notin RegisteredIds /\ id \in LiveIds)
                           => e.variant = "GameOnly"
                     /\ (id \in RegisteredIds /\ id \in LiveIds /\ LiveIdsDistinct)
                           => /\ e.variant = "RegisteredAndGame"
                              /\ e.user_id = LastRegistered(id)

C4_Witness ==
    /\ StartedOk
    /\ Rows = << <<"p1", 1>>, <<"p2", 1>> >>
    /\ Len(LiveNations) = 2
    /\ LiveIds = {1}
    /\ \E i, j \in 1..Len(ResultPlayers) :
          /\ ResultPlayers[i].variant = "RegisteredAndGame"
          /\ ResultPlayers[i].user_id = "p2"
          /\ ResultPlayers[j].variant = "GameOnly"

(* C5: the state is Uploading exactly when the live turn is negative and    *)
(* Playing otherwise; when uploading, each emitted player is wrapped once   *)
(* and is uploaded iff it is registered-and-present or present-only.        *)

C5_UploadingClassification ==
    StartedOk
    => /\ (StartedStateDetails.kind = "Uploading") <=> (world.game_data.turn < 0)
       /\ (StartedStateDetails.kind = "Playing") <=> (world.game_data.turn >= 0)
       /\ StartedStateDetails.kind = "Uploading"
            => /\ SameElements(ResultPlayers, potential_players)
               /\ \A i \in 1..Len(StartedStateDetails.uploading_players) :
                     LET u == StartedStateDetails.uploading_players[i]
                     IN  /\ u.uploaded <=>
                              u.potential_player.variant
                                  \in {"RegisteredAndGame", "GameOnly"}
                         /\ ~u.uploaded <=>
                              u.potential_player.variant = "RegisteredOnly"

C5_Witness ==
    /\ StartedOk
    /\ world.game_data.turn = -2
    /\ StartedStateDetails.kind = "Uploading"
    /\ \E i, j, k \in 1..Len(StartedStateDetails.uploading_players) :
          LET u == StartedStateDetails.uploading_players
          IN  /\ u[i].potential_player.variant = "RegisteredOnly" /\ ~u[i].uploaded
              /\ u[j].potential_player.variant = "GameOnly" /\ u[j].uploaded
              /\ u[k].potential_player.variant = "RegisteredAndGame" /\ u[k].uploaded

(* C6: a successful result has a cache entry iff the session is started; a  *)
(* lobby has none, and a started one holds exactly the game data and the    *)
(* overlay state fetched in the call, and nothing else.                     *)

C6_CachePresence ==
    DetailsOk
    => LET cache == result.value.cache_entry
           session == store[call.alias]
       IN  /\ (cache # None) <=> (session.kind = "StartedState")
           /\ session.kind = "Lobby" => cache = None
           /\ session.kind = "StartedState"
                => /\ cache.kind = "Some"
                   /\ cache.game_data = world.game_data
                   /\ cache.option_snek_state = world.snek
                   /\ DOMAIN cache = {"kind", "game_data", "option_snek_state"}

C6_Witness ==
    /\ StartedOk
    /\ world.snek.kind = "Some"
    /\ Len(Rows) > 0
    /\ result.value.cache_entry.option_snek_state = world.snek
    /\ store["a1"].kind = "Lobby"

(* C7: the lobby's remaining_slots is max(0, capacity - registered count):  *)
(* the difference when the registrations fit, 0 when they exceed capacity.  *)

C7_RemainingSlots ==
    LobbyOk
    => LET capacity == store[call.alias].player_count
           registered == Len(Rows)
       IN  result.value.nations.remaining_slots
             = IF registered <= capacity THEN U32(0, capacity - registered)
               ELSE U32(0, 0)

(* C8 as stated: for a started session whose game fetch and store reads     *)
(* succeed, the call succeeds whatever the overlay fetch gives; only a      *)
(* failed game fetch or store read fails the call; without overlay every    *)
(* name is the catalogue's.                                                 *)

C8_OverlayBestEffort ==
    (call.op = "details" /\ store[call.alias] # None
        /\ store[call.alias].kind = "StartedState")
    => /\ (world.game_data.kind # "Err" /\ world.rows.kind # "Err")
             => result.kind = "Ok"
       /\ result.kind = "Err"
             => (world.game_data.kind = "Err" \/ world.rows.kind = "Err")
       /\ (result.kind = "Ok" /\ world.snek = None)
             => \A i \in 1..Len(ResultPlayers) :
                   nation_name(ResultPlayers[i])
                       = NationName(nation_id(ResultPlayers[i]))

(* C8 amended: for a started session the call succeeds exactly when the     *)
(* game fetch, the overlay fetch and the store read return without error,   *)
(* whether the overlay fetch gives a snapshot or none; an error of the      *)
(* overlay fetch fails the call; without overlay every name is the          *)
(* catalogue's.                                                             *)

C8_OverlayAbsenceTolerated ==
    (call.op = "details" /\ store[call.alias] # None
        /\ store[call.alias].kind = "StartedState")
    => /\ result.kind = "Ok"
             <=> (world.game_data.kind # "Err" /\ world.snek.kind # "Err"
                     /\ world.rows.kind # "Err")
       /\ (world.game_data.kind # "Err" /\ world.snek.kind = "Err")
             => result = world.snek
       /\ (result.kind = "Ok" /\ world.snek = None)
             => \A i \in 1..Len(ResultPlayers) :
                   nation_name(ResultPlayers[i])
                       = NationName(nation_id(ResultPlayers[i]))

C8_Witness ==
    /\ StartedOk
    /\ world.snek = None
    /\ Len(ResultPlayers) = 3
    /\ \E i \in 1..3 : nation_name(ResultPlayers[i]) = <<1>>

(* C9 as stated: the returned list is sorted by display name, entries with  *)
(* equal names keep their emission order, and the order is a function of    *)
(* the inputs.                                                              *)

C9_StableDeterministicOrder ==
    StartedOk
    => /\ IsSorted(NamesOf(ResultPlayers))
       /\ ResultPlayers
            = StableSorted(potential_players, NamesOf(potential_players),
                           1..Len(potential_players))
       /\ \A other \in get_details_for_alias(call.alias) : other.result = result

(* C9 amended: the returned list is the emitted entries arranged in         *)
(* non-decreasing order of display name; the display names of the result,   *)
(* in order, are a function of the inputs (the order among entries of equal *)
(* name is not).                                                            *)

C9_SortedByName ==
    StartedOk
    => /\ IsSorted(NamesOf(ResultPlayers))
       /\ SameElements(ResultPlayers, potential_players)
       /\ \A other \in get_details_for_alias(call.alias) :
             NamesOf(PlayersOf(other.result.value)) = NamesOf(ResultPlayers)

C9_Witness ==
    /\ StartedOk
    /\ Len(ResultPlayers) >= 3
    /\ HasTie(ResultPlayers)
    /\ ResultPlayers # potential_players
    /\ ResultPlayers
         # StableSorted(potential_players, NamesOf(potential_players),
                        1..Len(potential_players))
    /\ \E i, j \in 1..Len(ResultPlayers) :
          StrLess(nation_name(ResultPlayers[i]), nation_name(ResultPlayers[j]))

(* C10: when playing, the result carries the live turn, hours and minutes   *)
(* are the truncated division of the timer into whole minutes and hours     *)
(* (hours*60 + minutes is the timer's whole minutes), minutes is in 0..59   *)
(* for a non-negative timer, and 7380000 ms gives 2 h 3 min.                *)

C10_TimeDerivation ==
    (StartedOk /\ world.game_data.turn >= 0)
    => LET playing == StartedStateDetails
           timer == world.game_data.turn_timer
           h == playing.hours_remaining
           m == playing.mins_remaining
           total == h * 60 + m
           rest == timer - total * 60000
       IN  /\ playing.kind = "Playing"
           /\ playing.turn.hi * Half + playing.turn.lo = world.game_data.turn
           /\ total \in -35791..35791
           /\ timer >= 0 => (rest \in 0..59999 /\ m \in 0..59 /\ h >= 0)
           /\ timer <= 0 => (rest \in -59999..0 /\ m \in -59..0 /\ h <= 0)
           /\ timer = 7380000 => (h = 2 /\ m = 3)

C10_Witness ==
    /\ StartedOk
    /\ world.game_data.turn = 3
    /\ world.game_data.turn_timer = 7380000
    /\ StartedStateDetails.kind = "Playing"
    /\ StartedStateDetails.hours_remaining = 2
    /\ StartedStateDetails.mins_remaining = 3
    /\ StartedStateDetails.turn = U32(0, 3)
====
